---- MODULE Spec2Model ----
(***************************************************************************)
(* Model of the personnel service: the CRUD functions of app/crud.py, the  *)
(* session dependency and retry wrapper of app/database.py and the route   *)
(* handlers and error middleware of app/main.py.                           *)
(*                                                                         *)
(* Python values are represented as follows.  A str is a tuple of          *)
(* one-character strings, None is the tuple <<"None">>, a datetime.date is *)
(* the tuple <<year, month, day>> of integers.  Rows, payloads and return  *)
(* values are records.                                                     *)
(***************************************************************************)
EXTENDS Integers, Sequences, FiniteSets, TLC

\* ------------------------------------------------------------------------
\* Bounds of the model
\* ------------------------------------------------------------------------
NumRequests == 2    \* request slots
MaxId == 2          \* ids handed out by a table's sequence, and ids in paths

Requests == 1..NumRequests
Ids == 1..MaxId

\* ------------------------------------------------------------------------
\* Entities and keys
\* ------------------------------------------------------------------------
Persons == {"jugador", "entrenador"}
Associations == {"juega_en", "entrena"}
Entities == Persons \cup Associations

EquipoIds == {1}
TemporadaIds == {1}

None == <<"None">>

\* ------------------------------------------------------------------------
\* Strings and dates
\* ------------------------------------------------------------------------
Digits == {"0", "1", "2", "3", "4", "5", "6", "7", "8", "9"}

DigitVal(c) ==
    CASE c = "0" -> 0 [] c = "1" -> 1 [] c = "2" -> 2 [] c = "3" -> 3
      [] c = "4" -> 4 [] c = "5" -> 5 [] c = "6" -> 6 [] c = "7" -> 7
      [] c = "8" -> 8 [] c = "9" -> 9

S_2024_01_15 == <<"2", "0", "2", "4", "-", "0", "1", "-", "1", "5">>
S_2023_02_28 == <<"2", "0", "2", "3", "-", "0", "2", "-", "2", "8">>
S_2024_13_40 == <<"2", "0", "2", "4", "-", "1", "3", "-", "4", "0">>
S_2023_02_29 == <<"2", "0", "2", "3", "-", "0", "2", "-", "2", "9">>
S_empty == <<>>

ValueError == <<"ValueError">>

IsLeap(y) == (y % 4 = 0 /\ y % 100 # 0) \/ y % 400 = 0

DaysInMonth(y, m) ==
    IF m = 2 THEN (IF IsLeap(y) THEN 29 ELSE 28)
    ELSE IF m \in {4, 6, 9, 11} THEN 30 ELSE 31

\* date.fromisoformat on a str: the YYYY-MM-DD form, a month in 1..12 and a
\* day that exists in that month; anything else raises ValueError.
fromisoformat(s) ==
    IF /\ Len(s) = 10
       /\ s[5] = "-" /\ s[8] = "-"
       /\ \A i \in {1, 2, 3, 4, 6, 7, 9, 10} : s[i] \in Digits
    THEN LET y == 1000 * DigitVal(s[1]) + 100 * DigitVal(s[2])
                  + 10 * DigitVal(s[3]) + DigitVal(s[4])
             m == 10 * DigitVal(s[6]) + DigitVal(s[7])
             d == 10 * DigitVal(s[9]) + DigitVal(s[10])
         IN IF /\ y >= 1 /\ m >= 1 /\ m <= 12
               /\ d >= 1 /\ d <= DaysInMonth(y, m)
            THEN <<y, m, d>>
            ELSE ValueError
    ELSE ValueError

\* Python truthiness of an Optional[str]: None and "" are falsy.
Truthy(v) == v # None /\ v # S_empty

\* A parsed date is the only value of length 3 here (strings have 0 or 10
\* characters, None has length 1).
IsDate(v) == Len(v) = 3

\* ------------------------------------------------------------------------
\* Inputs of the requests
\* ------------------------------------------------------------------------
RequiredDateInputs == {S_2024_01_15, S_2023_02_28, S_2024_13_40}
EndDateInputs == {None, S_empty, S_2024_01_15, S_2023_02_29}

\* JugadorCreate / EntrenadorCreate: the date of birth is the only field the
\* code touches; every other field is passed through unchanged.
PersonPayloads == [fecha_nac : RequiredDateInputs]

\* JuegaEnCreate / EntrenaCreate; subject_id is jugador_id / entrenador_id.
\* A malformed start date is paired with an absent end date only.
AssociationPayloads ==
    {p \in [subject_id : Ids, equipo_id : EquipoIds,
            temporada_id : TemporadaIds,
            fecha_inicio : {S_2024_01_15, S_2024_13_40},
            fecha_fin : EndDateInputs] :
        p.fecha_inicio = S_2024_13_40 => p.fecha_fin = None}

Payloads(e) == IF e \in Persons THEN PersonPayloads ELSE AssociationPayloads

PathKeys(e) ==
    IF e \in Persons THEN {<<i>> : i \in Ids}
    ELSE {<<i, q, t>> : i \in Ids, q \in EquipoIds, t \in TemporadaIds}

NoKey == <<>>
NoPayload == [none |-> TRUE]

\* ------------------------------------------------------------------------
\* The relational store: one table (a set of rows) per entity
\* ------------------------------------------------------------------------
KeyOf(e, row) ==
    IF e \in Persons THEN <<row.id>>
    ELSE <<row.subject_id, row.equipo_id, row.temporada_id>>

Keys(e, T) == {KeyOf(e, row) : row \in T}

Matching(e, T, key) == {row \in T : KeyOf(e, row) = key}

\* The composite primary key of juega_en / entrena: at most one row per
\* (subject, team, season).  Ids of jugador / entrenador come from the
\* table's sequence.
UniqueViolation(e, T, row) == KeyOf(e, row) \in Keys(e, T)

\* A date column accepts a date or NULL; any other value is refused by the
\* store when the statement is analysed (DataError).
BadValue(e, data) ==
    /\ e \in Associations
    /\ ~ (data.fecha_fin = None \/ IsDate(data.fecha_fin))

\* ------------------------------------------------------------------------
\* app/crud.py.  Every function takes the table T of its entity e, the next
\* value nextid of the table's id sequence and the fault the connection
\* suffers during the call, and yields the exception it raises (or "none"),
\* the value it returns, the table and sequence afterwards and the number of
\* statements it sent to the store.
\*
\* Faults: "none"; "transient" (the connection fails before the statement
\* takes effect); "lost_ack" (the connection fails after the store applied
\* the commit); "fatal" (the store refuses the statement); "pool_timeout"
\* (the session's first statement finds no connection in the pool within
\* pool_timeout: QueuePool raises sqlalchemy.exc.TimeoutError, a
\* SQLAlchemyError that is not an OperationalError, and nothing is sent).
\* ------------------------------------------------------------------------
ReadFaults == {"none", "transient", "fatal"}
WriteFaults == {"none", "transient", "lost_ack", "fatal"}
PoolFaults == {"pool_timeout"}

NoneResult == [ret |-> "None"]
RaisedResult == [ret |-> "raised"]
Pending == [ret |-> "pending"]

Raise(x, T, nextid, n) ==
    [exc |-> x, ret |-> RaisedResult, T |-> T, nextid |-> nextid, calls |-> n]

Return(v, T, nextid) ==
    [exc |-> "none", ret |-> v, T |-> T, nextid |-> nextid, calls |-> 1]

\* db.execute(stmt); db.commit() and the except SQLAlchemyError: rollback,
\* raise of every writing function.  invalid is the error the store finds in
\* the statement ("none" if it is acceptable), T2 / nextid2 the effect of the
\* statement, v the value returned after the commit.
execute_commit(fault, invalid, T, nextid, T2, nextid2, v) ==
    IF fault = "pool_timeout" THEN Raise("TimeoutError", T, nextid, 0)
    ELSE IF fault = "transient" THEN Raise("OperationalError", T, nextid, 1)
    ELSE IF fault = "fatal" THEN Raise("ProgrammingError", T, nextid, 1)
    ELSE IF invalid # "none" THEN Raise(invalid, T, nextid, 1)
    ELSE IF fault = "lost_ack" THEN Raise("OperationalError", T2, nextid2, 1)
    ELSE Return(v, T2, nextid2)

\* db.query(...) of the reading functions.
query(fault, T, nextid, v) ==
    IF fault = "pool_timeout" THEN Raise("TimeoutError", T, nextid, 0)
    ELSE IF fault = "transient" THEN Raise("OperationalError", T, nextid, 1)
    ELSE IF fault = "fatal" THEN Raise("ProgrammingError", T, nextid, 1)
    ELSE Return(v, T, nextid)

\* get_jugadores / get_entrenadores / get_juega_en_list / get_entrena_list
\* with the default skip = 0, limit = 100 (the store holds fewer rows).
get_list(e, T, nextid, fault) ==
    query(fault, T, nextid, [ret |-> "list", rows |-> T])

\* get_jugador / get_entrenador / get_juega_en / get_entrena: .first()
get_one(e, key, T, nextid, fault) ==
    LET found == Matching(e, T, key)
    IN query(fault, T, nextid,
             IF found = {} THEN NoneResult
             ELSE [ret |-> "row", row |-> CHOOSE row \in found : TRUE])

create_jugador_uncommitted(e, payload, T, nextid, fault) ==
    LET d == fromisoformat(payload.fecha_nac)
        row == [id |-> nextid, fecha_nac |-> d]
    IN IF d = ValueError THEN Raise("ValueError", T, nextid, 0)
       ELSE execute_commit(fault, "none", T, nextid, T, nextid + 1,
                           [ret |-> "row", row |-> row])

\* create_jugador / create_entrenador
create_jugador(e, payload, T, nextid, fault) ==
    LET d == fromisoformat(payload.fecha_nac)
        row == [id |-> nextid, fecha_nac |-> d]
    IN IF d = ValueError THEN Raise("ValueError", T, nextid, 0)
       ELSE execute_commit(fault, "none", T, nextid, T \cup {row}, nextid + 1,
                           [ret |-> "row", row |-> row])

\* The date parsing shared by create_juega_en, update_juega_en,
\* create_entrena and update_entrena: the end date is parsed only if truthy.
association_data(payload) ==
    LET inicio == fromisoformat(payload.fecha_inicio)
        fin == IF Truthy(payload.fecha_fin)
               THEN fromisoformat(payload.fecha_fin)
               ELSE payload.fecha_fin
    IN IF inicio = ValueError \/ fin = ValueError
       THEN [raised |-> TRUE, data |-> payload]
       ELSE [raised |-> FALSE,
             data |-> [payload EXCEPT !.fecha_inicio = inicio,
                                      !.fecha_fin = fin]]

create_juega_en_merge(e, payload, T, nextid, fault) ==
    LET p == association_data(payload)
        invalid == IF BadValue(e, p.data) THEN "DataError" ELSE "none"
        T2 == (T \ Matching(e, T, KeyOf(e, p.data))) \cup {p.data}
    IN IF p.raised THEN Raise("ValueError", T, nextid, 0)
       ELSE execute_commit(fault, invalid, T, nextid, T2, nextid,
                           [ret |-> "row", row |-> p.data])

\* create_juega_en / create_entrena
create_juega_en(e, payload, T, nextid, fault) ==
    LET p == association_data(payload)
        invalid == IF BadValue(e, p.data) THEN "DataError"
                   ELSE IF UniqueViolation(e, T, p.data) THEN "IntegrityError"
                   ELSE "none"
    IN IF p.raised THEN Raise("ValueError", T, nextid, 0)
       ELSE execute_commit(fault, invalid, T, nextid, T \cup {p.data}, nextid,
                           [ret |-> "row", row |-> p.data])

update_jugador_upsert(e, key, payload, T, nextid, fault) ==
    LET d == fromisoformat(payload.fecha_nac)
        matched == Matching(e, T, key)
        row == [id |-> key[1], fecha_nac |-> d]
    IN IF d = ValueError THEN Raise("ValueError", T, nextid, 0)
       ELSE execute_commit(fault, "none", T, nextid, (T \ matched) \cup {row},
                           nextid, [ret |-> "row", row |-> row])

\* update_jugador / update_entrenador
update_jugador(e, key, payload, T, nextid, fault) ==
    LET d == fromisoformat(payload.fecha_nac)
        matched == Matching(e, T, key)
        T2 == (T \ matched) \cup {[row EXCEPT !.fecha_nac = d] : row \in matched}
        v == IF Cardinality(matched) = 0 THEN NoneResult
             ELSE [ret |-> "row", row |-> [id |-> key[1], fecha_nac |-> d]]
    IN IF d = ValueError THEN Raise("ValueError", T, nextid, 0)
       ELSE execute_commit(fault, "none", T, nextid, T2, nextid, v)

\* update_juega_en / update_entrena: .values(**data) assigns every column of
\* the payload, the three key columns included.
update_juega_en(e, key, payload, T, nextid, fault) ==
    LET p == association_data(payload)
        matched == Matching(e, T, key)
        T2 == (T \ matched) \cup {p.data : row \in matched}
        invalid == IF BadValue(e, p.data) THEN "DataError"
                   ELSE IF matched # {} /\ UniqueViolation(e, T \ matched, p.data)
                        THEN "IntegrityError"
                   ELSE "none"
        v == IF Cardinality(matched) = 0 THEN NoneResult
             ELSE [ret |-> "row", row |-> p.data]
    IN IF p.raised THEN Raise("ValueError", T, nextid, 0)
       ELSE execute_commit(fault, invalid, T, nextid, T2, nextid, v)

delete_jugador_always_true(e, key, T, nextid, fault) ==
    LET matched == Matching(e, T, key)
    IN execute_commit(fault, "none", T, nextid, T \ matched, nextid,
                      [ret |-> "bool", val |-> Cardinality(matched) >= 0])

\* delete_jugador / delete_entrenador / delete_juega_en / delete_entrena
delete_jugador(e, key, T, nextid, fault) ==
    LET matched == Matching(e, T, key)
    IN execute_commit(fault, "none", T, nextid, T \ matched, nextid,
                      [ret |-> "bool", val |-> Cardinality(matched) > 0])

\* The crud function a request calls.
crud(c, T, nextid, fault) ==
    CASE c.op = "list" -> get_list(c.entity, T, nextid, fault)
      [] c.op = "get" -> get_one(c.entity, c.key, T, nextid, fault)
      [] c.op = "create" /\ c.entity \in Persons ->
            create_jugador(c.entity, c.payload, T, nextid, fault)
      [] c.op = "create" /\ c.entity \in Associations ->
            create_juega_en(c.entity, c.payload, T, nextid, fault)
      [] c.op = "update" /\ c.entity \in Persons ->
            update_jugador(c.entity, c.key, c.payload, T, nextid, fault)
      [] c.op = "update" /\ c.entity \in Associations ->
            update_juega_en(c.entity, c.key, c.payload, T, nextid, fault)
      [] c.op = "delete" -> delete_jugador(c.entity, c.key, T, nextid, fault)

Faults(op) == IF op \in {"list", "get"} THEN ReadFaults ELSE WriteFaults

\* ------------------------------------------------------------------------
\* app/database.py: the connection pool of the engine
\* ------------------------------------------------------------------------
PoolSize == 5
MaxOverflow == 10

\* QueuePool hands out at most pool_size + max_overflow connections.
Capacity == PoolSize + MaxOverflow

\* ------------------------------------------------------------------------
\* app/database.py: the retry policy of execute_with_retry
\* ------------------------------------------------------------------------
MaxAttempts == 5
WaitMultiplier == 1
WaitMin == 4
WaitMax == 30

SQLAlchemyErrors ==
    {"OperationalError", "IntegrityError", "DataError", "ProgrammingError",
     "TimeoutError"}

Max(a, b) == IF a >= b THEN a ELSE b
Min(a, b) == IF a <= b THEN a ELSE b

RECURSIVE Pow2(_)
Pow2(n) == IF n <= 0 THEN 1 ELSE 2 * Pow2(n - 1)

stop_after_attempt_late(n) == n >= MaxAttempts + 1

\* stop=stop_after_attempt(5): stop once attempt number n has been made.
stop_after_attempt(n) == n >= MaxAttempts

retry_if_exception_type_any(x) == x \in SQLAlchemyErrors

\* retry=retry_if_exception_type(OperationalError)
retry_if_exception_type(x) == x = "OperationalError"

\* wait=wait_exponential(multiplier=1, min=4, max=30): the sleep after
\* attempt number n is multiplier * 2^(n-1), clamped to [min, max].
wait_exponential(n) ==
    Max(Max(0, WaitMin), Min(WaitMultiplier * Pow2(n - 1), WaitMax))

\* Whether the tenacity wrapper runs the function again after attempt n
\* raised x (reraise=True: otherwise the exception leaves the wrapper as is).
retries(x, n) ==
    x # "none" /\ retry_if_exception_type(x) /\ ~ stop_after_attempt(n)

through_retry_reads_only(op) == op \in {"list", "get"}

\* app/main.py: the handlers of POST call crud.create_* directly, all other
\* handlers call execute_with_retry(crud.<function>, db, ...).
through_retry(op) == op # "create"

\* ------------------------------------------------------------------------
\* app/main.py: what a route handler does with the outcome of its call
\* ------------------------------------------------------------------------
handler_catches_everything(x) == x # "none"

\* except SQLAlchemyError as e: raise HTTPException(status_code=503, ...)
handler_catches(x) == x \in SQLAlchemyErrors

\* if <result> is None / falsy: raise HTTPException(status_code=404, ...)
not_found(op, v) ==
    \/ op \in {"get", "update"} /\ v = NoneResult
    \/ op = "delete" /\ v = [ret |-> "bool", val |-> FALSE]

\* The body of the handler's try block: the exception of the call, else the
\* HTTPException(404) of a missing row, else a normal return; then the except
\* clause.  Yields the exception that leaves the handler ("none" if it
\* returns) and the status of the response the framework builds for a
\* returned value or an HTTPException (0: no response, the exception
\* propagates).
handler(op, x, v) ==
    LET raised == IF x # "none" THEN x
                  ELSE IF not_found(op, v) THEN "HTTPException"
                  ELSE "none"
    IN IF handler_catches(raised) THEN [exc |-> "HTTPException", status |-> 503]
       ELSE IF raised = "HTTPException" THEN [exc |-> raised, status |-> 404]
       ELSE IF raised = "none" THEN [exc |-> "none", status |-> 200]
       ELSE [exc |-> raised, status |-> 0]

\* app/database.py get_db, after the yield: the except clauses roll back and
\* re-raise, the finally clause closes the session.
get_db_rollback(x) == x \in SQLAlchemyErrors

get_db_close_on_success(x) == x = "none"

get_db_close(x) == TRUE

\* db_session_middleware: the response call_next returned, or the status
\* chosen by the except clause that matches the exception x.
db_session_middleware(x, st) ==
    IF x \in {"none", "HTTPException"} THEN st
    ELSE IF x = "OperationalError" THEN 503
    ELSE IF x \in SQLAlchemyErrors THEN 503
    ELSE 500

\* ------------------------------------------------------------------------
\* State
\* ------------------------------------------------------------------------
VARIABLES
    resource,   \* the resource group (table) the run's requests address
    store,      \* store[e]: the rows of table e
    seq,        \* seq[e]: next value of the id sequence of table e
    req,        \* req[r]: operation, entity, key and payload of request r
    pc,         \* pc[r]: where request r is
    session,    \* session[r]: "none", "open" or "closed"
    closes,     \* closes[r]: number of db.close() calls on the session
    rollbacks,  \* rollbacks[r]: TRUE once get_db rolled the session back
    outcomes,   \* outcomes[r]: outcome of each execution of the crud function
    waits,      \* waits[r]: the sleeps between the executions
    calls,      \* calls[r]: statements sent to the store
    result,     \* result[r]: value returned by the last execution
    exc,        \* exc[r]: exception in flight ("none" if none)
    status,     \* status[r]: status of the response (0: none yet)
    deletes,    \* deletes[k]: history, the values returned by the latest
                \* delete calls on key k (two at most) with no other call
                \* addressing k between them or since
    others,     \* connections checked out of the pool by the requests the
                \* process serves besides those of the slots
    conn,       \* conn[r]: the session of request r holds a connection
    present     \* present[r]: history, request r is a delete whose key was
                \* in the table when it arrived

vars == <<resource, store, seq, req, pc, session, closes, rollbacks,
          outcomes, waits, calls, result, exc, status, deletes, others, conn,
          present>>

NoRequest == [op |-> "none", entity |-> "none", key |-> NoKey,
              payload |-> NoPayload]

Init ==
    /\ resource \in Entities
    /\ store = [e \in Entities |-> {}]
    /\ seq = [e \in Persons |-> 1]
    /\ req = [r \in Requests |-> NoRequest]
    /\ pc = [r \in Requests |-> "idle"]
    /\ session = [r \in Requests |-> "none"]
    /\ closes = [r \in Requests |-> 0]
    /\ rollbacks = [r \in Requests |-> FALSE]
    /\ outcomes = [r \in Requests |-> <<>>]
    /\ waits = [r \in Requests |-> <<>>]
    /\ calls = [r \in Requests |-> 0]
    /\ result = [r \in Requests |-> Pending]
    /\ exc = [r \in Requests |-> "none"]
    /\ status = [r \in Requests |-> 0]
    /\ deletes = [k \in PathKeys(resource) |-> <<>>]
    /\ others = 0
    /\ conn = [r \in Requests |-> FALSE]
    /\ present = [r \in Requests |-> FALSE]

\* ------------------------------------------------------------------------
\* Requests
\* ------------------------------------------------------------------------
RequestInputs ==
    UNION {
        {[op |-> "list", entity |-> e, key |-> NoKey, payload |-> NoPayload]}
        \cup {[op |-> o, entity |-> e, key |-> k, payload |-> NoPayload] :
                  o \in {"get", "delete"}, k \in PathKeys(e)}
        \cup {[op |-> "create", entity |-> e, key |-> NoKey, payload |-> p] :
                  p \in Payloads(e)}
        \cup {[op |-> "update", entity |-> e, key |-> k, payload |-> p] :
                  k \in PathKeys(e), p \in Payloads(e)}
        : e \in Entities}

PendingCreates(e) ==
    Cardinality({q \in Requests : /\ pc[q] = "call"
                                  /\ req[q].op = "create"
                                  /\ req[q].entity = e})

\* The four tables share no state and no statement touches two of them: a
\* run exercises the resource group chosen initially.  A create on a table
\* with generated ids is admitted only while its sequence is below the cap.
Admissible(c) ==
    /\ c.entity = resource
    /\ (c.op = "create" /\ c.entity \in Persons) =>
           seq[c.entity] + PendingCreates(c.entity) <= MaxId

Outcome(x) ==
    IF x = "none" THEN "ok"
    ELSE IF x = "OperationalError" THEN "Transient"
    ELSE IF x = "ValueError" THEN "ValueError"
    ELSE "Fatal"

\* A request arrives and takes the lowest free slot: the framework resolves
\* Depends(get_db), which creates the session (db = SessionLocal()) and
\* yields it to the handler.
Arrive(r, inputs) ==
    /\ pc[r] = "idle"
    /\ \A q \in Requests : q < r => pc[q] # "idle"
    /\ \E c \in inputs :
          /\ Admissible(c)
          /\ req' = [req EXCEPT ![r] = c]
          /\ present' = [present EXCEPT ![r] =
                            /\ c.op = "delete"
                            /\ c.key \in Keys(c.entity, store[c.entity])]
    /\ session' = [session EXCEPT ![r] = "open"]
    /\ pc' = [pc EXCEPT ![r] = "call"]
    /\ UNCHANGED <<resource, store, seq, closes, rollbacks, outcomes, waits,
                   calls, result, exc, status, deletes, others, conn>>

\* The keys a call addresses: the key in the path, the key columns of an
\* association payload, and the keys that appear in or vanish from the table.
\* Reads address none.
Addressed(c, T, T2) ==
    IF c.op \in {"list", "get"} THEN {}
    ELSE (IF c.key = NoKey THEN {} ELSE {c.key})
         \cup (IF c.payload # NoPayload /\ c.entity \in Associations
               THEN {KeyOf(c.entity, c.payload)} ELSE {})
         \cup (Keys(c.entity, T) \ Keys(c.entity, T2))
         \cup (Keys(c.entity, T2) \ Keys(c.entity, T))

DeleteRecord(c, res, before) ==
    IF c.op = "delete" /\ res.exc = "none"
    THEN (IF before = <<>> THEN <<res.ret.val>>
          ELSE <<before[Len(before)], res.ret.val>>)
    ELSE <<>>

\* Connections checked out of the pool.
CheckedOut == others + Cardinality({q \in Requests : conn[q]})

\* The session of request r has a connection or can check one out.
Available(r) == conn[r] \/ CheckedOut < Capacity

\* Whether the session holds a connection after the call: a query begins a
\* transaction that lasts until db.close(); db.commit() and db.rollback() of
\* the writing functions return the connection to the pool.
Holds(c, res, held) ==
    IF res.calls = 0 THEN held
    ELSE c.op \in {"list", "get"}

\* One execution of the crud function, directly (create) or as an attempt of
\* execute_with_retry, and tenacity's decision after it.  The first statement
\* of a session checks a connection out of the pool; with the pool exhausted
\* for pool_timeout seconds the checkout fails.
Attempt(r) ==
    /\ pc[r] = "call"
    /\ LET c == req[r]
           e == c.entity
           n == Len(outcomes[r]) + 1
       IN \E fault \in Faults(c.op) \cup PoolFaults :
            LET res == crud(c, store[e],
                            IF e \in Persons THEN seq[e] ELSE 0, fault)
                again == through_retry(c.op) /\ retries(res.exc, n)
            IN /\ (fault \in PoolFaults) = (~ Available(r))
               /\ conn' = [conn EXCEPT ![r] = Holds(c, res, @)]
               /\ store' = [store EXCEPT ![e] = res.T]
               /\ seq' = IF e \in Persons
                         THEN [seq EXCEPT ![e] = res.nextid] ELSE seq
               /\ outcomes' = [outcomes EXCEPT ![r] = Append(@, Outcome(res.exc))]
               /\ calls' = [calls EXCEPT ![r] = @ + res.calls]
               /\ result' = [result EXCEPT ![r] = res.ret]
               /\ exc' = [exc EXCEPT ![r] = res.exc]
               /\ waits' = IF again
                           THEN [waits EXCEPT ![r] = Append(@, wait_exponential(n))]
                           ELSE waits
               /\ pc' = [pc EXCEPT ![r] = IF again THEN "wait" ELSE "handler"]
               /\ deletes' =
                     [k \in DOMAIN deletes |->
                        IF k \in Addressed(c, store[e], res.T)
                        THEN DeleteRecord(c, res, deletes[k])
                        ELSE deletes[k]]
    /\ UNCHANGED <<resource, req, session, closes, rollbacks, status, others,
                   present>>

\* The sleep between two attempts is over.
Wake(r) ==
    /\ pc[r] = "wait"
    /\ pc' = [pc EXCEPT ![r] = "call"]
    /\ UNCHANGED <<resource, store, seq, req, session, closes, rollbacks, outcomes,
                   waits, calls, result, exc, status,
                   deletes, others, conn, present>>

\* The rest of the route handler: its except clause and its 404.
Handler(r) ==
    /\ pc[r] = "handler"
    /\ LET h == handler(req[r].op, exc[r], result[r])
       IN /\ exc' = [exc EXCEPT ![r] = h.exc]
          /\ status' = [status EXCEPT ![r] = h.status]
    /\ pc' = [pc EXCEPT ![r] = "teardown"]
    /\ UNCHANGED <<resource, store, seq, req, session, closes, rollbacks, outcomes,
                   waits, calls, result,
                   deletes, others, conn, present>>

\* get_db resumes after its yield, with the handler's exception thrown in.
Teardown(r) ==
    /\ pc[r] = "teardown"
    /\ rollbacks' = [rollbacks EXCEPT ![r] = get_db_rollback(exc[r])]
    /\ IF get_db_close(exc[r])
       THEN /\ session' = [session EXCEPT ![r] = "closed"]
            /\ closes' = [closes EXCEPT ![r] = @ + 1]
       ELSE UNCHANGED <<session, closes>>
    /\ conn' = [conn EXCEPT ![r] = IF get_db_close(exc[r]) THEN FALSE ELSE @]
    /\ pc' = [pc EXCEPT ![r] = "middleware"]
    /\ UNCHANGED <<resource, store, seq, req, outcomes, waits, calls, result, exc,
                   status,
                   deletes, others, present>>

\* db_session_middleware receives the response or the exception.
Middleware(r) ==
    /\ pc[r] = "middleware"
    /\ status' = [status EXCEPT ![r] = db_session_middleware(exc[r], @)]
    /\ pc' = [pc EXCEPT ![r] = "done"]
    /\ UNCHANGED <<resource, store, seq, req, session, closes, rollbacks, outcomes,
                   waits, calls, result, exc,
                   deletes, others, conn, present>>

\* The response has been sent; the slot is free for the next request.
Finish(r) ==
    /\ pc[r] = "done"
    /\ req' = [req EXCEPT ![r] = NoRequest]
    /\ pc' = [pc EXCEPT ![r] = "idle"]
    /\ session' = [session EXCEPT ![r] = "none"]
    /\ closes' = [closes EXCEPT ![r] = 0]
    /\ rollbacks' = [rollbacks EXCEPT ![r] = FALSE]
    /\ outcomes' = [outcomes EXCEPT ![r] = <<>>]
    /\ waits' = [waits EXCEPT ![r] = <<>>]
    /\ calls' = [calls EXCEPT ![r] = 0]
    /\ result' = [result EXCEPT ![r] = Pending]
    /\ exc' = [exc EXCEPT ![r] = "none"]
    /\ status' = [status EXCEPT ![r] = 0]
    /\ present' = [present EXCEPT ![r] = FALSE]
    /\ UNCHANGED <<resource, store, seq,
                   deletes, others, conn>>

\* Requests served one at a time, with every input.
OneAtATime(r) == \A q \in Requests \ {r} : pc[q] = "idle"

StartAlone(r) == OneAtATime(r) /\ Arrive(r, RequestInputs)

\* Requests served concurrently: get, create and delete on the first key of
\* the table, with a well-formed and a malformed payload.
FirstKey(e) == IF e \in Persons THEN <<1>> ELSE <<1, 1, 1>>

ConcurrentInputs ==
    {c \in RequestInputs :
        /\ c.op \in {"get", "create", "delete"}
        /\ c.key \in {NoKey, FirstKey(c.entity)}
        /\ c.payload \in {NoPayload,
                          [fecha_nac |-> S_2024_01_15],
                          [fecha_nac |-> S_2024_13_40],
                          [subject_id |-> 1, equipo_id |-> 1, temporada_id |-> 1,
                           fecha_inicio |-> S_2024_01_15, fecha_fin |-> None],
                          [subject_id |-> 1, equipo_id |-> 1, temporada_id |-> 1,
                           fecha_inicio |-> S_2024_13_40, fecha_fin |-> None]}}

StartConcurrent(r) == Arrive(r, ConcurrentInputs)

Next ==
    \E r \in Requests :
        \/ StartAlone(r)
        \/ Attempt(r)
        \/ Wake(r)
        \/ Handler(r)
        \/ Teardown(r)
        \/ Middleware(r)
        \/ Finish(r)

Spec == Init /\ [][Next]_vars

NextConcurrent ==
    \E r \in Requests :
        \/ StartConcurrent(r)
        \/ Attempt(r)
        \/ Wake(r)
        \/ Handler(r)
        \/ Teardown(r)
        \/ Middleware(r)
        \/ Finish(r)

SpecConcurrent == Init /\ [][NextConcurrent]_vars

\* Requests served while the other requests of the process check connections
\* out of the pool and return them: get and delete on the first key of the
\* jugador table.
InitPool == Init /\ resource = "jugador"

PoolInputs ==
    {c \in RequestInputs :
        c.op \in {"get", "delete"} /\ c.key = FirstKey(c.entity)}

StartPooled(r) == Arrive(r, PoolInputs)

\* Another request's session checks out a connection (QueuePool refuses
\* beyond pool_size + max_overflow), or returns one.
OtherCheckout ==
    /\ CheckedOut < Capacity
    /\ others' = others + 1
    /\ UNCHANGED <<resource, store, seq, req, pc, session, closes, rollbacks,
                   outcomes, waits, calls, result, exc, status, deletes, conn,
                   present>>

OtherCheckin ==
    /\ others > 0
    /\ others' = others - 1
    /\ UNCHANGED <<resource, store, seq, req, pc, session, closes, rollbacks,
                   outcomes, waits, calls, result, exc, status, deletes, conn,
                   present>>

NextPool ==
    \/ OtherCheckout
    \/ OtherCheckin
    \/ \E r \in Requests :
          \/ StartPooled(r)
          \/ Attempt(r)
          \/ Wake(r)
          \/ Handler(r)
          \/ Teardown(r)
          \/ Middleware(r)
          \/ Finish(r)

SpecPool == InitPool /\ [][NextPool]_vars

\* Concurrent writers of the juega_en table (the entrena functions are the
\* same statements on the entrena table): create on the first triple with an
\* absent or a well-formed end date, update of the first triple that names
\* the second, delete of the first triple.
InitAssociations == Init /\ resource = "juega_en"

AssociationInputs ==
    {c \in RequestInputs :
        /\ c.entity \in Associations
        /\ c.op \in {"create", "update", "delete"}
        /\ c.key \in {NoKey, FirstKey(c.entity)}
        /\ c.payload # NoPayload =>
              /\ c.payload.fecha_inicio = S_2024_01_15
              /\ c.payload.fecha_fin \in {None, S_2024_01_15}
              /\ c.op = "create" => c.payload.subject_id = 1
              /\ c.op = "update" =>
                    c.payload.subject_id = 2 /\ c.payload.fecha_fin = None}

StartAssociation(r) == Arrive(r, AssociationInputs)

NextAssociations ==
    \E r \in Requests :
        \/ StartAssociation(r)
        \/ Attempt(r)
        \/ Wake(r)
        \/ Handler(r)
        \/ Teardown(r)
        \/ Middleware(r)
        \/ Finish(r)

SpecAssociations == InitAssociations /\ [][NextAssociations]_vars

\* ------------------------------------------------------------------------
\* Properties
\* ------------------------------------------------------------------------
RECURSIVE Transients(_)
Transients(o) ==
    IF o = <<>> THEN 0
    ELSE (IF Head(o) = "Transient" THEN 1 ELSE 0) + Transients(Tail(o))

\* The request has just left execute_with_retry.
LeftRetry(r) == through_retry(req[r].op) /\ pc[r] = "handler"

\* C1: an operation run through execute_with_retry that fails Transient N
\* times (N < 5) and then succeeds returns its result after exactly N + 1
\* executions; one that always fails Transient is executed exactly 5 times
\* and the last OperationalError leaves the wrapper unchanged; there is never
\* a 6th execution.
C1_RetryCeiling ==
    \A r \in Requests :
        LET o == outcomes[r]
            n == Len(o)
        IN /\ n <= 5
           /\ LeftRetry(r) =>
                /\ n >= 1
                /\ o[n] = "ok" =>
                     /\ Transients(o) < 5
                     /\ n = Transients(o) + 1
                     /\ exc[r] = "none"
                     /\ result[r] # RaisedResult
                /\ o[n] = "Transient" =>
                     /\ n = 5
                     /\ Transients(o) = 5
                     /\ exc[r] = "OperationalError"
                     /\ result[r] = RaisedResult
                /\ o[n] # "ValueError" => calls[r] = n

C1_Witness ==
    \E r \in Requests :
        /\ LeftRetry(r)
        /\ outcomes[r] = <<"Transient", "Transient", "Transient", "Transient",
                           "Transient">>
        /\ Len(waits[r]) = 4

\* C2: the waits between the attempts of execute_with_retry are strictly
\* increasing from one retry to the next, and each is at least 4 and at most
\* 30 time units.
C2_WaitsStrictlyIncreasing ==
    \A r \in Requests :
        \A i \in 1..Len(waits[r]) :
            /\ waits[r][i] >= 4
            /\ waits[r][i] <= 30
            /\ i > 1 => waits[r][i - 1] < waits[r][i]

\* C3: a failure that is not an OperationalError (a Fatal store error or the
\* ValueError of a malformed date) is propagated on its first occurrence: no
\* execution and no wait follows it, also after retried Transient failures,
\* and when it is the first failure the operation ran exactly once.
C3_FatalNeverRetried ==
    \A r \in Requests :
        LET o == outcomes[r]
            n == Len(o)
        IN /\ \A i \in 1..(n - 1) : o[i] = "Transient"
           /\ pc[r] = "wait" => n >= 1 /\ o[n] = "Transient"
           /\ (n >= 1 /\ o[n] \in {"Fatal", "ValueError"}) =>
                /\ pc[r] \notin {"call", "wait"}
                /\ Len(waits[r]) = n - 1
           /\ (n >= 1 /\ o[1] \in {"Fatal", "ValueError"}) =>
                n = 1 /\ waits[r] = <<>>
           /\ (pc[r] = "handler" /\ n >= 1 /\ o[n] = "Fatal") =>
                exc[r] \in SQLAlchemyErrors \ {"OperationalError"}
           /\ (pc[r] = "handler" /\ n >= 1 /\ o[n] = "ValueError") =>
                exc[r] = "ValueError"

C3_Witness ==
    \E r \in Requests :
        /\ LeftRetry(r)
        /\ outcomes[r] = <<"Transient", "Fatal">>
        /\ waits[r] = <<4>>

\* C4: the session get_db creates for a request is closed exactly once on
\* every exit path of the handler, whatever the other requests do: it is open
\* while the handler runs (no statement is sent on a closed session), closed
\* once get_db has resumed, never closed twice, and no finished request
\* leaves a session open.
C4_SessionReleasedOnce ==
    \A r \in Requests :
        /\ closes[r] <= 1
        /\ pc[r] = "idle" => session[r] = "none" /\ closes[r] = 0
        /\ pc[r] \in {"call", "wait", "handler", "teardown"} =>
              session[r] = "open" /\ closes[r] = 0
        /\ pc[r] \in {"middleware", "done"} =>
              session[r] = "closed" /\ closes[r] = 1

C4_Witness ==
    \E r, q \in Requests :
        /\ r # q
        /\ pc[r] = "done" /\ status[r] = 500 /\ closes[r] = 1
        /\ pc[q] = "wait" /\ session[q] = "open"

Last(o) == o[Len(o)]

AfterCall(r) == pc[r] \in {"handler", "teardown", "middleware", "done"}

\* C5 as stated: whatever the operation, a request that ends on a Transient
\* store failure answers 503 only after 5 attempts.
C5_503OnlyAfterFiveAttempts ==
    \A r \in Requests :
        (pc[r] = "done" /\ Last(outcomes[r]) = "Transient") =>
            status[r] = 503 /\ Len(outcomes[r]) = 5

\* C5 as amended: list, get, update and delete run through the retry
\* wrapper, so a request of theirs that ends on a Transient failure made 5
\* attempts (4 waits) before its 503; create is called directly, and its
\* request answers 503 after a single Transient failure, without retry.
C5_RetryExceptCreate ==
    \A r \in Requests :
        (AfterCall(r) /\ Last(outcomes[r]) = "Transient") =>
            /\ req[r].op \in {"list", "get", "update", "delete"} =>
                  Len(outcomes[r]) = 5 /\ Len(waits[r]) = 4
            /\ req[r].op = "create" =>
                  Len(outcomes[r]) = 1 /\ waits[r] = <<>>
            /\ pc[r] = "done" => status[r] = 503

C5_Witness ==
    \E r \in Requests :
        /\ pc[r] = "done"
        /\ req[r].op = "create"
        /\ outcomes[r] = <<"Transient">>
        /\ status[r] = 503

\* A required date of the payload is not an ISO-8601 calendar date.
MalformedRequired(c) ==
    IF c.entity \in Persons
    THEN fromisoformat(c.payload.fecha_nac) = ValueError
    ELSE fromisoformat(c.payload.fecha_inicio) = ValueError

\* The end date of an association payload is present and malformed.
MalformedEnd(c) ==
    /\ c.entity \in Associations
    /\ c.payload.fecha_fin # None
    /\ fromisoformat(c.payload.fecha_fin) = ValueError

\* C6: a create whose required date is malformed, or whose end date is
\* present and malformed, fails with a validation error before any store
\* call: no statement is sent and the store is unchanged.
C6_MalformedCreateNoStoreCall ==
    \A r \in Requests :
        (/\ AfterCall(r)
         /\ req[r].op = "create"
         /\ MalformedRequired(req[r]) \/ MalformedEnd(req[r])) =>
            calls[r] = 0 /\ outcomes[r] = <<"ValueError">>

\* C7: a create or update request with a malformed required date is
\* answered with 422, a 4xx response, and is never retried.
C7_MalformedDateIs422 ==
    \A r \in Requests :
        (/\ pc[r] = "done"
         /\ req[r].op \in {"create", "update"}
         /\ MalformedRequired(req[r])) =>
            status[r] = 422 /\ Len(outcomes[r]) = 1

\* Request r executes its crud function in this step.
Executes(r) == Len(outcomes'[r]) = Len(outcomes[r]) + 1

\* The failures the store or the connection injects, as opposed to those the
\* statement itself earns.
StoreFailures == {"OperationalError", "ProgrammingError"}

\* Every date of the payload parses (the end date may be absent).
WellFormed(c) ==
    \/ c.payload = NoPayload
    \/ c.entity \in Persons /\ fromisoformat(c.payload.fecha_nac) # ValueError
    \/ /\ c.entity \in Associations
       /\ fromisoformat(c.payload.fecha_inicio) # ValueError
       /\ \/ c.payload.fecha_fin = None
          \/ fromisoformat(c.payload.fecha_fin) # ValueError

Sentinel(op) ==
    IF op = "delete" THEN [ret |-> "bool", val |-> FALSE] ELSE NoneResult

C8_Step ==
    \A r \in Requests :
        (/\ Executes(r)
         /\ req[r].op \in {"get", "update", "delete"}
         /\ req[r].key \notin Keys(req[r].entity, store[req[r].entity])
         /\ WellFormed(req[r])
         /\ exc'[r] \notin StoreFailures) =>
            /\ exc'[r] = "none"
            /\ result'[r] = Sentinel(req[r].op)
            /\ pc'[r] = "handler"

C8_Answer ==
    \A r \in Requests :
        (/\ pc[r] = "done"
         /\ req[r].op \in {"get", "update", "delete"}
         /\ Last(outcomes[r]) = "ok"
         /\ result[r] = Sentinel(req[r].op)) =>
            status[r] = 404

C9_Step ==
    \A r \in Requests :
        (Executes(r) /\ req[r].op = "delete" /\ exc'[r] = "none") =>
            LET e == req[r].entity
                k == req[r].key
            IN /\ result'[r] = [ret |-> "bool", val |-> k \in Keys(e, store[e])]
               /\ store'[e] = {row \in store[e] : KeyOf(e, row) # k}
               /\ \A f \in Entities \ {e} : store'[f] = store[f]

C9_Pairs ==
    \A k \in DOMAIN deletes :
        /\ Len(deletes[k]) = 2 => deletes[k][2] = FALSE
        /\ deletes[k] # <<>> =>
              /\ get_one(resource, k, store[resource], 0, "none").ret = NoneResult
              /\ \A row \in get_list(resource, store[resource], 0, "none").ret.rows :
                    KeyOf(resource, row) # k

\* C9: a delete that returns tells whether the key was in the store, removes
\* the rows of that key and no other; two deletes of a key with no other call
\* on that key in between return (true, false) or (false, false), never an
\* error for a missing key; and after a delete returned, get and list no
\* longer show the key.
C9_DeleteIdempotent == [][C9_Step]_vars /\ []C9_Pairs

C9_Witness ==
    \E k \in DOMAIN deletes :
        /\ deletes[k] = <<TRUE, FALSE>>
        /\ store[resource] # {}

UpdatesMissing(r) ==
    /\ Executes(r)
    /\ req[r].op = "update"
    /\ req[r].key \notin Keys(req[r].entity, store[req[r].entity])

\* C10 as stated: for every payload, an update on a key that matches no row
\* returns None (unless the store fails) and leaves the store unchanged.
C10_NotFoundForEveryPayload ==
    [][\A r \in Requests :
          (UpdatesMissing(r) /\ exc'[r] \notin StoreFailures) =>
              result'[r] = NoneResult /\ store' = store]_vars

\* C10 as amended: an update on a key that matches no row leaves the store
\* unchanged for every entity and every payload (no row created, none
\* modified, list returns the same rows); it returns None whenever it
\* returns, which it does for every payload with well-formed dates unless the
\* store fails; with a malformed required date it raises ValueError without
\* a store call.
C10_MissingUpdateLeavesStore ==
    [][\A r \in Requests :
          UpdatesMissing(r) =>
              /\ store' = store
              /\ get_list(resource, store'[resource], 0, "none").ret
                    = get_list(resource, store[resource], 0, "none").ret
              /\ exc'[r] = "none" => result'[r] = NoneResult
              /\ (WellFormed(req[r]) /\ exc'[r] \notin StoreFailures) =>
                    exc'[r] = "none"
              /\ MalformedRequired(req[r]) =>
                    exc'[r] = "ValueError" /\ calls'[r] = calls[r]]_vars

C10_Witness ==
    \E r \in Requests :
        /\ pc[r] = "handler"
        /\ req[r].op = "update"
        /\ outcomes[r] = <<"ok">>
        /\ result[r] = NoneResult
        /\ store[resource] # {}

\* date.isoformat: the YYYY-MM-DD string of a date.
DigitOf(n) == CHOOSE c \in Digits : DigitVal(c) = n

isoformat(d) ==
    <<DigitOf(d[1] \div 1000), DigitOf((d[1] \div 100) % 10),
      DigitOf((d[1] \div 10) % 10), DigitOf(d[1] % 10), "-",
      DigitOf(d[2] \div 10), DigitOf(d[2] % 10), "-",
      DigitOf(d[3] \div 10), DigitOf(d[3] % 10)>>

\* The payload is valid: its dates parse, the end date being absent or a
\* date.
ValidPayload(c) ==
    /\ WellFormed(c)
    /\ c.entity \in Associations => c.payload.fecha_fin # S_empty

\* The record a get on key k returns right after the step.
GetAfter(e, k) == get_one(e, k, store'[e], 0, "none").ret

C11_Step ==
    \A r \in Requests :
        (Executes(r) /\ req[r].op = "create") =>
            LET e == req[r].entity
                p == req[r].payload
                row == result'[r].row
            IN /\ (/\ ValidPayload(req[r])
                   /\ exc'[r] \notin StoreFailures
                   /\ e \in Associations => KeyOf(e, p) \notin Keys(e, store[e]))
                  => exc'[r] = "none"
               /\ exc'[r] = "none" =>
                    /\ ValidPayload(req[r])
                    /\ GetAfter(e, KeyOf(e, row)) = [ret |-> "row", row |-> row]
                    /\ Matching(e, store'[e], KeyOf(e, row)) = {row}
                    /\ store'[e] = store[e] \cup {row}
                    /\ e \in Persons =>
                          /\ isoformat(row.fecha_nac) = p.fecha_nac
                          /\ \A other \in store[e] : other.id # row.id
                    /\ e \in Associations =>
                          /\ KeyOf(e, row) = KeyOf(e, p)
                          /\ isoformat(row.fecha_inicio) = p.fecha_inicio
                          /\ IF p.fecha_fin = None THEN row.fecha_fin = None
                             ELSE isoformat(row.fecha_fin) = p.fecha_fin

\* C11: a create with a valid payload returns unless the store fails (or,
\* for an association, the triple is taken), and a get on the key of the
\* record it returned then yields that record: for jugador / entrenador the
\* input with the generated id, which no other stored row has, for juega_en /
\* entrena the input under the payload's (subject, team, season) triple; the
\* dates of the record are the calendar dates the input strings denote.
C11_CreateThenGet == [][C11_Step]_vars

C11_Witness ==
    \E r \in Requests :
        /\ pc[r] = "handler"
        /\ req[r].op = "create"
        /\ outcomes[r] = <<"ok">>
        /\ Cardinality(store[resource]) = 2
        /\ get_one(resource, KeyOf(resource, result[r].row),
                   store[resource], 0, "none").ret
              = [ret |-> "row", row |-> result[r].row]

\* Request r executes a create whose triple is already in the table.
CreatesTaken(r) ==
    /\ Executes(r)
    /\ req[r].op = "create"
    /\ req[r].entity \in Associations
    /\ ValidPayload(req[r])
    /\ KeyOf(req[r].entity, req[r].payload)
          \in Keys(req[r].entity, store[req[r].entity])

C12_Unique ==
    \A e \in Associations :
        \A row, other \in store[e] :
            KeyOf(e, row) = KeyOf(e, other) => row = other

C12_Step ==
    \A r \in Requests :
        (CreatesTaken(r) /\ exc'[r] \notin StoreFailures) =>
            /\ exc'[r] = "IntegrityError"
            /\ Outcome(exc'[r]) = "Fatal"
            /\ store' = store
            /\ pc'[r] = "handler"
            /\ waits'[r] = <<>>
            /\ outcomes'[r] = <<"Fatal">>

C12_Answer ==
    \A r \in Requests :
        (pc[r] = "done" /\ req[r].op = "create" /\ outcomes[r] = <<"Fatal">>) =>
            status[r] = 503

\* C12: whatever the interleaving of create, update and delete requests on
\* juega_en / entrena, the table holds at most one row per (subject, team,
\* season) triple; a create whose triple is already present ends in a Fatal
\* error (IntegrityError, unless the connection fails first) on its only
\* execution, without retry, with the table as it was, and the request
\* answers 503.
C12_OneRowPerTriple == []C12_Unique /\ [][C12_Step]_vars /\ []C12_Answer

C12_Witness ==
    \E r, q \in Requests :
        /\ r # q
        /\ pc[r] = "done"
        /\ req[r].op = "create"
        /\ outcomes[r] = <<"Fatal">>
        /\ status[r] = 503
        /\ req[r].payload.fecha_fin = S_2024_01_15
        /\ \E row \in store[resource] :
              /\ KeyOf(resource, row) = KeyOf(resource, req[r].payload)
              /\ row.fecha_fin = None
        /\ pc[q] = "wait"
        /\ req[q].op = "update"

C13_PoolBound == CheckedOut <= PoolSize + MaxOverflow

\* C13: the pool never has more than pool_size + max_overflow (5 + 10)
\* connections checked out; and a checkout that fails after the pool timeout
\* is a Transient failure, which execute_with_retry retries up to its 5
\* attempts: a wrapped call that ends on it made 5 attempts.
C13_PoolTimeoutIsTransient ==
    /\ C13_PoolBound
    /\ \A r \in Requests :
          (LeftRetry(r) /\ exc[r] = "TimeoutError") =>
              /\ Last(outcomes[r]) = "Transient"
              /\ Len(outcomes[r]) = 5

C14_Step ==
    \A r \in Requests :
        (/\ Executes(r)
         /\ req[r].op = "update"
         /\ exc'[r] = "none"
         /\ result'[r] # NoneResult) =>
            LET e == req[r].entity
                k == req[r].key
            IN /\ KeyOf(e, result'[r].row) = k
               /\ GetAfter(e, k) = [ret |-> "row", row |-> result'[r].row]
               /\ Keys(e, store'[e]) = Keys(e, store[e])

\* C14: an update that returns a record leaves the row under the key of the
\* request: the key of the returned record is the request key, a get on the
\* request key returns that record, and the keys of the table are the same
\* as before, for every entity and every payload.
C14_UpdateKeepsKey == [][C14_Step]_vars

\* C15: with requests served one at a time, a DELETE request whose key was in
\* the table when it arrived is never answered 404, and is answered 200 when
\* the row is gone at the end, whatever failures strike its attempts.
C15_DeleteOfPresentKeyNever404 ==
    \A r \in Requests :
        (pc[r] = "done" /\ present[r]) =>
            /\ status[r] # 404
            /\ req[r].key \notin Keys(resource, store[resource]) =>
                  status[r] = 200

====
